---- MODULE Spec2Model ----
(***************************************************************************)
(* Model of src/main.py: the position/orders correlation script.           *)
(*                                                                         *)
(*   main -> get_advertising_data -> analyze_position_orders_correlation   *)
(*        (-> create_visualizations) -> save_results_to_excel -> summary   *)
(*                                                                         *)
(* Units.  avg_pos and orders are integers.  Correlation coefficients and  *)
(* p-values are in hundredths (0.3 is 30, 0.05 is 5, 1 is 100).  Dates are *)
(* the ISO date read as a number (2026-01-01 is 20260101), which orders    *)
(* them as the query's string comparison does.                             *)
(***************************************************************************)
EXTENDS Integers, Sequences, FiniteSets, TLC

(***************************************************************************)
(* Program constants.                                                      *)
(***************************************************************************)
START_DATE == 20260101
END_DATE == 20260201
MinRows == 10
MaxPos == 200
TopN == 10

\* bins / labels of pd.cut (labels transliterated)
Bins == <<0, 10, 20, 30, 50, 100, 200>>
Labels == <<"Top-10", "11-20", "21-30", "31-50", "51-100", "100+">>
NoGroup == "NaN"

RequiredColumns == {"avg_pos", "orders", "norm_query", "advert_id", "nm_id"}

(***************************************************************************)
(* Bound of the model: the longest run of generated rows in the table.     *)
(***************************************************************************)
MaxPad == 12

(***************************************************************************)
(* Cells.  A cell of avg_pos / orders as stored: a number, a missing value *)
(* (None / NaN), a text that is not a number, or a text that spells one.   *)
(***************************************************************************)
Num(n) == [t |-> "num", v |-> n]
NaN == [t |-> "nan", v |-> 0]
Text == [t |-> "text", v |-> 0]
NumText(n) == [t |-> "numtext", v |-> n]

IsNum(c) == c.t = "num"
\* comparisons as pandas / Python make them: any comparison with NaN is False
Gt(c, n) == c.t = "num" /\ c.v > n
Le(c, n) == c.t = "num" /\ c.v <= n
Lt(c, n) == c.t = "num" /\ c.v < n
Ge(c, n) == c.t = "num" /\ c.v >= n
\* abs(): NaN stays NaN
Abs(c) == IF c.t = "num" /\ c.v < 0 THEN Num(0 - c.v) ELSE c

Range(s) == {s[i] : i \in 1..Len(s)}

RECURSIVE SumSeq(_)
\* sum of a sequence of integers
SumSeq(s) == IF s = <<>> THEN 0 ELSE Head(s) + SumSeq(Tail(s))

(***************************************************************************)
(* Rows and tables.                                                        *)
(***************************************************************************)
Row(pos, ord, adv, q, d) ==
    [avg_pos |-> pos, orders |-> ord, advert_id |-> adv, norm_query |-> q,
     nm_id |-> 100 + adv, date |-> d]

Queries == <<"a", "b">>
\* rank of a query text in string order
QRank(q) == CHOOSE i \in 1..Len(Queries) : Queries[i] = q

PadPos == <<3, 10, 12, 20, 25, 30, 40, 50, 75, 100, 150, 199>>
PosAt(j) == PadPos[((j - 1) % Len(PadPos)) + 1]

PadKinds == {"asc", "desc", "flat", "far", "zeros"}

\* the j-th of k generated rows
PadRow(kind, k, j) ==
    CASE kind = "asc"   -> Row(Num(PosAt(j)), Num(1 + (j % 3)), j, "a", START_DATE + (j % 2))
      [] kind = "desc"  -> Row(Num(PosAt(j)), Num(1 + (j % 3)), k + 1 - j, "a", START_DATE + (j % 2))
      [] kind = "flat"  -> Row(Num(5), Num(1 + (j % 3)), 1, "a", START_DATE)
      [] kind = "far"   -> Row(Num(MaxPos + 50), Num(1), j, "a", START_DATE)
      [] kind = "zeros" -> Row(Num(PosAt(j)), Num(IF j <= 3 THEN 0 ELSE 1), j, "a", END_DATE)

Pad(kind, k) == [j \in 1..k |-> PadRow(kind, k, j)]

\* one more row, of every kind the cleaning distinguishes
TailRows ==
    {Row(p, Num(1), 1, "a", START_DATE) :
        p \in {NaN, Text, NumText(7), Num(0 - 1), Num(0), Num(MaxPos), Num(MaxPos + 1)}}
    \cup {Row(Num(5), o, 1, "a", START_DATE) :
        o \in {NaN, Text, NumText(2), Num(0 - 1), Num(0), Num(7)}}
    \cup {Row(NaN, NaN, 1, "a", START_DATE), Row(Text, Text, 1, "a", START_DATE),
          Row(Text, Num(0), 1, "a", START_DATE)}
    \cup {Row(Num(5), Num(1), 1, "a", 20251231), Row(Num(5), Num(1), 1, "a", 20260202)}
    \cup {Row(Num(5), Num(2), 1, "b", START_DATE), Row(Num(5), Num(3), MaxPad + 5, "a", END_DATE)}

\* a run of generated rows, with at most one more row before or after it
Tables ==
    LET extra == {<<>>} \cup {<<r>> : r \in TailRows}
    IN  {Pad(kind, k) \o tail : kind \in PadKinds, k \in 0..MaxPad, tail \in extra}
        \cup {head \o Pad(kind, k) : kind \in PadKinds, k \in 0..MaxPad, head \in extra}

AllColumns == RequiredColumns \cup {"date"}
ColumnVariants == {AllColumns} \cup {AllColumns \ {c} : c \in AllColumns}
DbStates == {"ok", "no_table", "unreachable"}

\* pd.DataFrame(): no rows, no columns
EmptyFrame == [cols |-> {}, rows |-> <<>>]
\* df.empty: some axis has length 0
IsEmpty(frame) == frame.cols = {} \/ frame.rows = <<>>

None == [kind |-> "None"]
NotRun == [kind |-> "NotRun"]

VARIABLES
    configured,     \* DB_NAME and AD_TABLE are defined as module globals
    dbState,        \* the database: reachable, and holding the table
    dbCols, dbRows, \* the advertising table in the database
    pc,             \* position of main()
    conn,           \* the sqlite connection of get_advertising_data
    df,             \* the table main() loaded
    results,        \* value returned by analyze_position_orders_correlation
    results2,       \* value returned by a repeated call on the same table
    libMemo,        \* scipy.stats calls made so far: <<input, outcome>>
    interpretation, \* strength / direction printed by the analysis
    recBranch,      \* branch of the recommendation block of the analysis
    finalBranch,    \* branch of the final conclusion of main()
    vizCalled,      \* create_visualizations was entered
    excelCalled,    \* the ExcelWriter block of save_results_to_excel was entered
    files,          \* artifacts on disk
    reported,       \* messages printed
    countedRows,    \* df_clean when its length is printed and checked (lines 88-90)
    escaped         \* exception that left main(), "" when none

vars == <<configured, dbState, dbCols, dbRows, pc, conn, df, results, results2,
          libMemo, interpretation, recBranch, finalBranch, vizCalled,
          excelCalled, files, reported, escaped, countedRows>>

SampleTable == Pad("asc", MaxPad)

Init ==
    /\ \/ /\ configured = TRUE
          /\ dbState = "ok"
          /\ dbCols = AllColumns
          /\ dbRows \in Tables
       \/ /\ configured \in BOOLEAN
          /\ dbState \in DbStates
          /\ dbCols \in ColumnVariants
          /\ dbRows = SampleTable
    /\ pc = "start"
    /\ conn = "none"
    /\ df = EmptyFrame
    /\ results = NotRun
    /\ results2 = NotRun
    /\ libMemo = {}
    /\ interpretation = None
    /\ recBranch = "unset"
    /\ finalBranch = "unset"
    /\ vizCalled = FALSE
    /\ excelCalled = FALSE
    /\ files = {}
    /\ reported = {}
    /\ escaped = ""
    /\ countedRows = <<>>

(***************************************************************************)
(* main(), lines 519-525: the banner reads DB_NAME and AD_TABLE, which the *)
(* file defines only in comments (lines 578-579).                          *)
(***************************************************************************)
MainBanner ==
    /\ pc = "start"
    /\ IF configured
       THEN /\ pc' = "load"
            /\ reported' = reported \cup {"banner"}
            /\ escaped' = escaped
       ELSE \* lines 519-522 are printed, line 523 raises
            /\ pc' = "crashed"
            /\ reported' = reported \cup {"banner"}
            /\ escaped' = "NameError"
    /\ UNCHANGED <<countedRows, configured, dbState, dbCols, dbRows, conn, df, results, results2,
                   libMemo, interpretation, recBranch, finalBranch, vizCalled,
                   excelCalled, files>>

(***************************************************************************)
(* get_advertising_data                                                    *)
(***************************************************************************)
\* WHERE strftime('%Y-%m-%d', date) BETWEEN ? AND ?
InWindow(r) == START_DATE <= r.date /\ r.date <= END_DATE
Query(rows) == SelectSeq(rows, InWindow)

\* the query raises: no such table, or no such column (date)
QueryFails == dbState = "no_table" \/ "date" \notin dbCols

\* connection after the except blocks of lines 45-50: nothing closes it
ConnAfterError == "open"

Load ==
    /\ pc = "load"
    /\ \/ \* sqlite3.connect raises: except sqlite3.Error
          /\ dbState = "unreachable"
          /\ conn' = "none"
          /\ df' = EmptyFrame
          /\ reported' = reported \cup {"sqlite_error"}
       \/ \* read_sql_query raises: line 36 is skipped
          /\ dbState # "unreachable"
          /\ QueryFails
          /\ conn' = ConnAfterError
          /\ df' = EmptyFrame
          /\ reported' = reported \cup {"general_error"}
       \/ /\ dbState = "ok"
          /\ ~QueryFails
          /\ conn' = "closed"
          /\ IF Query(dbRows) = <<>>
             THEN /\ df' = EmptyFrame
                  /\ reported' = reported \cup {"no_data_for_period"}
             ELSE /\ df' = [cols |-> dbCols, rows |-> Query(dbRows)]
                  /\ reported' = reported \cup {"loaded"}
    /\ pc' = "check"
    /\ UNCHANGED <<countedRows, configured, dbState, dbCols, dbRows, results, results2,
                   libMemo, interpretation, recBranch, finalBranch, vizCalled,
                   excelCalled, files, escaped>>

(***************************************************************************)
(* analyze_position_orders_correlation: the cleaning, lines 73-96.         *)
(***************************************************************************)
IsMissing(c) == c.t = "nan"
HasKeyCells(r) == ~IsMissing(r.avg_pos) /\ ~IsMissing(r.orders)
\* df_clean.dropna(subset=['avg_pos', 'orders'])
DropNa(rows) == SelectSeq(rows, HasKeyCells)

\* pd.to_numeric(..., errors='coerce')
ToNumeric(c) ==
    CASE c.t = "num" -> c
      [] c.t = "numtext" -> Num(c.v)
      [] c.t = "text" -> NaN
      [] c.t = "nan" -> NaN

CoerceRow(r) == [r EXCEPT !.avg_pos = ToNumeric(@), !.orders = ToNumeric(@)]
Coerce(rows) == [i \in 1..Len(rows) |-> CoerceRow(rows[i])]

OrdersPositive(r) == Gt(r.orders, 0)
\* df_clean[df_clean['orders'] > 0]
KeepOrders(rows) == SelectSeq(rows, OrdersPositive)

\* faulty variant of TooFew: the minimum-row check is lost
TooFewNever(rows) == FALSE

\* len(df_clean) < 10, line 90
TooFew(rows) == Len(rows) < MinRows

\* faulty variant of KeepPositions: the lower limit of line 96 is lost
KeepPositionsNoLower(rows) == SelectSeq(rows, LAMBDA r : Le(r.avg_pos, MaxPos))

PosNotAbove(r) == Le(r.avg_pos, MaxPos)
PosPositive(r) == Gt(r.avg_pos, 0)
\* lines 95-96
KeepPositions(rows) == SelectSeq(SelectSeq(rows, PosNotAbove), PosPositive)

\* rows that reach line 90
Counted(frame) == KeepOrders(Coerce(DropNa(frame.rows)))

MissingColumns(frame) == RequiredColumns \ frame.cols

(***************************************************************************)
(* Position groups, lines 114-122.                                         *)
(***************************************************************************)
\* pd.cut(..., right=False): bin i is [Bins[i], Bins[i+1])
InBin(v, i) == Bins[i] <= v /\ v < Bins[i + 1]
Cut(c) ==
    IF IsNum(c) /\ \E i \in 1..Len(Labels) : InBin(c.v, i)
    THEN Labels[CHOOSE i \in 1..Len(Labels) : InBin(c.v, i)]
    ELSE NoGroup

WithGroup(r) ==
    [avg_pos |-> r.avg_pos, orders |-> r.orders, advert_id |-> r.advert_id,
     norm_query |-> r.norm_query, nm_id |-> r.nm_id, date |-> r.date,
     position_group |-> Cut(r.avg_pos)]
AssignGroups(rows) == [i \in 1..Len(rows) |-> WithGroup(rows[i])]

OrdersOf(rows) == [i \in 1..Len(rows) |-> rows[i].orders.v]
PositionsOf(rows) == [i \in 1..Len(rows) |-> rows[i].avg_pos.v]

InGroup(rows, g) == SelectSeq(rows, LAMBDA r : r.position_group = g)
\* groupby('position_group').agg(...): count and sum of orders, and the sum of
\* positions its mean is taken from, per label (rows without a group are in none)
GroupStats(rows) ==
    [g \in Range(Labels) |->
        [count |-> Len(InGroup(rows, g)),
         sum |-> SumSeq(OrdersOf(InGroup(rows, g))),
         pos_sum |-> SumSeq(PositionsOf(InGroup(rows, g)))]]

(***************************************************************************)
(* Correlation, lines 129-143.  scipy.stats is outside the repository: a   *)
(* call is one of the outcomes the library documents.  pearsonr raises on  *)
(* fewer than 2 points; on a constant input both functions return NaN with *)
(* a warning (warnings are silenced, line 13) and raise nothing; otherwise *)
(* they return a coefficient in [-1, 1] and a p-value in [0, 1].           *)
(***************************************************************************)
IsConstant(s) == \A i, j \in 1..Len(s) : s[i] = s[j]

RGrid == {0 - 100, 0 - 70, 0 - 30, 0 - 29, 0 - 10, 0 - 9, 0, 9, 10, 29, 30, 70, 100}
\* <<pearson r, pearson p, spearman r, spearman p>>
CorrGrid ==
    {<<r, 4, r, 4>> : r \in RGrid}
    \cup {<<0 - 100, 0, 0 - 100, 0>>, <<100, 0, 100, 0>>, <<0, 100, 0, 100>>,
          <<30, 5, 29, 6>>, <<0 - 30, 5, 0 - 31, 4>>, <<9, 60, 0 - 9, 61>>}

Raised == [raised |-> TRUE, r |-> NaN, p |-> NaN, rs |-> NaN, ps |-> NaN]
Returned(r, p, rs, ps) == [raised |-> FALSE, r |-> r, p |-> p, rs |-> rs, ps |-> ps]

StatsKey(rows) == <<PositionsOf(rows), OrdersOf(rows)>>

\* stats.pearsonr(x, y) and stats.spearmanr(x, y) on the cleaned rows
StatsOutcomes(rows) ==
    IF Len(rows) < 2 THEN {Raised}
    ELSE IF IsConstant(PositionsOf(rows)) \/ IsConstant(OrdersOf(rows))
    THEN {Returned(NaN, NaN, NaN, NaN)}
    ELSE {Returned(Num(g[1]), Num(g[2]), Num(g[3]), Num(g[4])) : g \in CorrGrid}

\* the library is a function: a call already made returns what it returned
StatsCall(rows, memo) ==
    IF \E m \in memo : m[1] = StatsKey(rows)
    THEN {m[2] : m \in {n \in memo : n[1] = StatsKey(rows)}}
    ELSE StatsOutcomes(rows)

\* the try / except of lines 129-143: the values bound after it
Correlate(out) ==
    IF out.raised
    THEN [pearson_corr |-> Num(0), pearson_p |-> Num(100),
          spearman_corr |-> Num(0), spearman_p |-> Num(100)]
    ELSE [pearson_corr |-> out.r, pearson_p |-> out.p,
          spearman_corr |-> out.rs, spearman_p |-> out.ps]

(***************************************************************************)
(* Interpretation, lines 148-168, and recommendations, lines 217-226.      *)
(***************************************************************************)
\* faulty variant of interpret_correlation: strict comparisons
interpret_correlation_strict(corr_value) ==
    LET abs_corr == Abs(corr_value)
    IN  IF Gt(abs_corr, 70) THEN "strong"
        ELSE IF Gt(abs_corr, 30) THEN "moderate"
        ELSE IF Gt(abs_corr, 10) THEN "weak"
        ELSE "negligible"

interpret_correlation(corr_value) ==
    LET abs_corr == Abs(corr_value)
    IN  IF Ge(abs_corr, 70) THEN "strong"
        ELSE IF Ge(abs_corr, 30) THEN "moderate"
        ELSE IF Ge(abs_corr, 10) THEN "weak"
        ELSE "negligible"

Direction(corr) == IF Lt(corr, 0) THEN "negative" ELSE "positive"

Interpret(corr) ==
    [kind |-> "interpretation", corr |-> corr,
     strength |-> interpret_correlation(Abs(corr)),
     direction |-> Direction(corr)]

\* lines 217-226: if / elif, with no else
Recommendation(corr) ==
    IF Lt(corr, 0 - 30) THEN "improve_rank"
    ELSE IF Lt(Abs(corr), 30) THEN "other_factors"
    ELSE "none"

\* lines 562-570 of main(): if / elif / else
FinalConclusion(corr) ==
    IF Lt(corr, 0 - 30) THEN "improve_rank"
    ELSE IF Lt(Abs(corr), 30) THEN "other_factors"
    ELSE "unexpected_positive"

(***************************************************************************)
(* Top campaigns, lines 174-186.                                           *)
(***************************************************************************)
KeyOf(r) == <<r.advert_id, r.norm_query>>
\* order of the group keys (advert_id, norm_query)
KeyLess(a, b) == a[1] < b[1] \/ (a[1] = b[1] /\ QRank(a[2]) < QRank(b[2]))

RECURSIVE SortKeys(_)
\* groupby sorts the group keys (sort=True)
SortKeys(S) ==
    IF S = {} THEN <<>>
    ELSE LET least == CHOOSE a \in S : \A b \in S \ {a} : KeyLess(a, b)
         IN  <<least>> \o SortKeys(S \ {least})

RowsOfKey(rows, key) == SelectSeq(rows, LAMBDA r : KeyOf(r) = key)

\* .agg({'date': 'nunique', 'avg_pos': 'mean', 'orders': 'sum'}); the mean is
\* kept as its numerator pos_sum over its denominator n
Aggregate(rows, key, withDate) ==
    LET mine == RowsOfKey(rows, key)
    IN  [advert_id |-> key[1], norm_query |-> key[2],
         date |-> IF withDate THEN Cardinality({r.date : r \in Range(mine)}) ELSE 0,
         pos_sum |-> SumSeq(PositionsOf(mine)), n |-> Len(mine),
         orders |-> SumSeq(OrdersOf(mine))]

GroupBy(rows, withDate) ==
    LET keys == SortKeys({KeyOf(r) : r \in Range(rows)})
    IN  [i \in 1..Len(keys) |-> Aggregate(rows, keys[i], withDate)]

\* index of the first largest 'orders' of a non-empty sequence
FirstLargest(s) ==
    CHOOSE i \in 1..Len(s) :
        /\ \A j \in 1..Len(s) : s[j].orders <= s[i].orders
        /\ \A j \in 1..(i - 1) : s[j].orders < s[i].orders

Without(s, i) == SubSeq(s, 1, i - 1) \o SubSeq(s, i + 1, Len(s))

\* index of the last largest 'orders' of a non-empty sequence
LastLargest(s) ==
    CHOOSE i \in 1..Len(s) :
        /\ \A j \in 1..Len(s) : s[j].orders <= s[i].orders
        /\ \A j \in (i + 1)..Len(s) : s[j].orders < s[i].orders

RECURSIVE NLargestLast(_, _)
\* faulty variant of NLargest: keep='last'
NLargestLast(n, s) ==
    IF n = 0 \/ s = <<>> THEN <<>>
    ELSE <<s[LastLargest(s)]>> \o NLargestLast(n - 1, Without(s, LastLargest(s)))

RECURSIVE NLargest(_, _)
\* DataFrame.nlargest(n, 'orders'), keep='first': descending, ties in frame order
NLargest(n, s) ==
    IF n = 0 \/ s = <<>> THEN <<>>
    ELSE <<s[FirstLargest(s)]>> \o NLargest(n - 1, Without(s, FirstLargest(s)))

TopCampaigns(frame) == NLargest(TopN, GroupBy(frame.rows, "date" \in frame.cols))

(***************************************************************************)
(* create_visualizations, lines 261-447.  Rendering and saving may fail at *)
(* any point; nothing in the function or in its caller catches that.       *)
(***************************************************************************)
ChartFile == "position_orders_correlation.png"
TrendFile == "position_trend.png"
ExcelFile == "position_orders_analysis.xlsx"

RenderModes == {"ok", "fail_before_save", "fail_after_chart"}

\* df['pos_rounded'] = df['avg_pos'].round(), line 418: on the caller's frame
WithRounded(r) ==
    [avg_pos |-> r.avg_pos, orders |-> r.orders, advert_id |-> r.advert_id,
     norm_query |-> r.norm_query, nm_id |-> r.nm_id, date |-> r.date,
     position_group |-> r.position_group, pos_rounded |-> r.avg_pos.v]
AddRounded(frame) ==
    [cols |-> frame.cols \cup {"pos_rounded"},
     rows |-> [i \in 1..Len(frame.rows) |-> WithRounded(frame.rows[i])]]

\* trend_data[trend_data['count'] >= 3] is not empty, lines 426-428
TrendHasData(rows) ==
    \E i \in 1..Len(rows) :
        Cardinality({j \in 1..Len(rows) : rows[j].avg_pos = rows[i].avg_pos}) >= 3

\* the frame as the function leaves it, the files it wrote, whether it raised
create_visualizations(frame, mode) ==
    CASE mode = "fail_before_save" ->
            [raised |-> TRUE, frame |-> frame, files |-> {}]
      [] mode = "fail_after_chart" ->
            [raised |-> TRUE, frame |-> frame, files |-> {ChartFile}]
      [] mode = "ok" ->
            [raised |-> FALSE, frame |-> AddRounded(frame),
             files |-> {ChartFile} \cup
                       (IF TrendHasData(frame.rows) THEN {TrendFile} ELSE {})]

(***************************************************************************)
(* analyze_position_orders_correlation(df), lines 52-259: every way a call *)
(* on `frame` can end.  ret is the value returned (None when it raised),   *)
(* input is the caller's table as the call leaves it.                      *)
(***************************************************************************)
Abort(frame, memo, msg) ==
    [ret |-> None, raised |-> FALSE, input |-> frame, viz |-> FALSE, files |-> {},
     msg |-> msg, interp |-> None, rec |-> "unset", memo |-> memo,
     counted |-> IF msg = "insufficient_data" THEN Counted(frame) ELSE <<>>]

\* faulty variant of SharesInput: the analysis works in place on the caller's table
SharesInputInPlace == TRUE

\* Whether the frame the analysis writes to is the caller's table.  df.copy()
\* (line 73) makes it a copy, and dropna and the boolean selections (lines 76,
\* 84, 95, 96) return new frames: the column writes of lines 79-80, 117 and
\* 418 never land on the caller's table.
SharesInput == FALSE

Completed(frame, memo, out, mode) ==
    LET kept == KeepPositions(Counted(frame))
        clean == [cols |-> frame.cols \cup {"position_group"},
                  rows |-> AssignGroups(kept)]
        corr == Correlate(out)
        drawn == create_visualizations(clean, mode)
    IN  [ret |-> IF drawn.raised THEN None
                 ELSE [kind |-> "result",
                       data |-> drawn.frame,
                       pearson_corr |-> corr.pearson_corr,
                       pearson_p |-> corr.pearson_p,
                       spearman_corr |-> corr.spearman_corr,
                       spearman_p |-> corr.spearman_p,
                       group_stats |-> GroupStats(clean.rows),
                       top_campaigns |-> TopCampaigns(clean)],
         raised |-> drawn.raised,
         input |-> IF SharesInput THEN drawn.frame ELSE frame,
         viz |-> TRUE,
         files |-> drawn.files,
         msg |-> IF out.raised THEN "correlation_error" ELSE "correlation",
         interp |-> Interpret(corr.pearson_corr),
         rec |-> Recommendation(corr.pearson_corr),
         memo |-> memo \cup {<<StatsKey(kept), out>>},
         counted |-> Counted(frame)]

AnalysisOutcomes(frame, memo) ==
    IF IsEmpty(frame) THEN {Abort(frame, memo, "no_data")}
    ELSE IF MissingColumns(frame) # {} THEN {Abort(frame, memo, "missing_columns")}
    ELSE IF TooFew(Counted(frame)) THEN {Abort(frame, memo, "insufficient_data")}
    ELSE {Completed(frame, memo, out, mode) :
            out \in StatsCall(KeepPositions(Counted(frame)), memo),
            mode \in RenderModes}

(***************************************************************************)
(* main(), lines 530-572.                                                  *)
(***************************************************************************)
MainCheck ==
    /\ pc = "check"
    /\ IF IsEmpty(df)
       THEN /\ reported' = reported \cup {"load_failed"}
            /\ pc' = "done"
       ELSE IF "avg_pos" \notin df.cols \/ "orders" \notin df.cols
       THEN /\ reported' = reported \cup {"columns_absent"}
            /\ pc' = "done"
       ELSE /\ reported' = reported
            /\ pc' = "analyze"
    /\ UNCHANGED <<countedRows, configured, dbState, dbCols, dbRows, conn, df, results, results2,
                   libMemo, interpretation, recBranch, finalBranch, vizCalled,
                   excelCalled, files, escaped>>

\* results = analyze_position_orders_correlation(df), line 541
Analyze ==
    /\ pc = "analyze"
    /\ \E o \in AnalysisOutcomes(df, libMemo) :
          /\ df' = o.input
          /\ countedRows' = o.counted
          /\ libMemo' = o.memo
          /\ interpretation' = o.interp
          /\ recBranch' = o.rec
          /\ vizCalled' = o.viz
          /\ files' = files \cup o.files
          /\ reported' = reported \cup {o.msg}
          /\ IF o.raised
             THEN /\ results' = results
                  /\ escaped' = "RenderError"
                  /\ pc' = "crashed"
             ELSE /\ results' = o.ret
                  /\ escaped' = escaped
                  /\ pc' = IF o.ret # None THEN "export" ELSE "no_result"
    /\ UNCHANGED <<configured, dbState, dbCols, dbRows, conn, results2,
                   finalBranch, excelCalled>>

\* line 572
NoResult ==
    /\ pc = "no_result"
    /\ reported' = reported \cup {"analysis_not_performed"}
    /\ pc' = "done"
    /\ UNCHANGED <<countedRows, configured, dbState, dbCols, dbRows, conn, df, results, results2,
                   libMemo, interpretation, recBranch, finalBranch, vizCalled,
                   excelCalled, files, escaped>>

\* faulty variant of SaveResults: the writer is not inside a try, its failure
\* leaves save_results_to_excel and main()
SaveResultsUncaught ==
    /\ pc = "export"
    /\ excelCalled' = TRUE
    /\ \E written \in BOOLEAN :
          IF written
          THEN /\ files' = files \cup {ExcelFile}
               /\ reported' = reported \cup {"excel_saved"}
               /\ escaped' = escaped
               /\ pc' = "summary"
          ELSE /\ files' = files
               /\ reported' = reported
               /\ escaped' = "ExcelError"
               /\ pc' = "crashed"
    /\ UNCHANGED <<countedRows, configured, dbState, dbCols, dbRows, conn, df, results,
                   results2, libMemo, interpretation, recBranch, finalBranch,
                   vizCalled>>

\* save_results_to_excel(results), lines 449-513: a failure of the writer is
\* caught and reported
SaveResults ==
    /\ pc = "export"
    /\ excelCalled' = TRUE
    /\ \E written \in BOOLEAN :
          IF written
          THEN /\ files' = files \cup {ExcelFile}
               /\ reported' = reported \cup {"excel_saved"}
          ELSE /\ files' = files
               /\ reported' = reported \cup {"excel_error"}
    /\ pc' = "summary"
    /\ UNCHANGED <<countedRows, configured, dbState, dbCols, dbRows, conn, df, results, results2,
                   libMemo, interpretation, recBranch, finalBranch, vizCalled,
                   escaped>>

\* lines 547-570
Summary ==
    /\ pc = "summary"
    /\ finalBranch' = FinalConclusion(results.pearson_corr)
    /\ reported' = reported \cup {"summary"}
    /\ pc' = "done"
    /\ UNCHANGED <<countedRows, configured, dbState, dbCols, dbRows, conn, df, results, results2,
                   libMemo, interpretation, recBranch, vizCalled, excelCalled,
                   files, escaped>>

(***************************************************************************)
(* A second call of the analysis on the table main() holds, by a caller    *)
(* that runs it again once main() has returned.                            *)
(***************************************************************************)
AnalyzeAgain ==
    /\ pc = "done"
    /\ results \notin {NotRun, None}
    /\ results2 = NotRun
    /\ \E o \in AnalysisOutcomes(df, libMemo) :
          /\ ~o.raised
          /\ df' = o.input
          /\ libMemo' = o.memo
          /\ files' = files \cup o.files
          /\ results2' = o.ret
    /\ UNCHANGED <<countedRows, configured, dbState, dbCols, dbRows, pc, conn, results,
                   interpretation, recBranch, finalBranch, vizCalled, excelCalled,
                   reported, escaped>>

Next == MainBanner \/ Load \/ MainCheck \/ Analyze \/ NoResult \/ SaveResults \/ Summary

Spec == Init /\ [][Next]_vars

NextAgain == Next \/ AnalyzeAgain

SpecAgain == Init /\ [][NextAgain]_vars

(***************************************************************************)
(* Properties.                                                             *)
(***************************************************************************)
HasResult == results.kind = "result"
\* the table get_advertising_data returned to main()
Loaded == pc \notin {"start", "load"}

InRange(r) == r.orders.t = "num" /\ r.orders.v > 0
              /\ r.avg_pos.t = "num" /\ 0 < r.avg_pos.v /\ r.avg_pos.v <= 200

\* C1: in every returned result each row of result['data'] has orders > 0 and
\* 0 < avg_pos <= 200, and the statistics were computed from such values only:
\* the correlation routines received no position outside (0, 200] and no order
\* count <= 0, and the bucket counts cover no more rows than the cleaned table.
C1_CleanedRowsInRange ==
    /\ HasResult =>
          /\ \A i \in 1..Len(results.data.rows) : InRange(results.data.rows[i])
          /\ SumSeq([i \in 1..Len(Labels) |-> results.group_stats[Labels[i]].count])
                <= Len(results.data.rows)
    /\ \A m \in libMemo :
          /\ \A i \in 1..Len(m[1][1]) : 0 < m[1][1][i] /\ m[1][1][i] <= 200
          /\ \A i \in 1..Len(m[1][2]) : m[1][2][i] > 0

\* C1 witness: a result was returned for a table holding a row with a
\* non-numeric position, and the cleaned table is shorter than the input.
C1_Witness ==
    /\ HasResult
    /\ \E i \in 1..Len(df.rows) : df.rows[i].avg_pos.t = "text"
    /\ Len(results.data.rows) < Len(df.rows)
    /\ Len(results.data.rows) >= 1

\* C2 (as claimed): every cleaned row is assigned one of the six buckets, so
\* the per-bucket counts sum to the number of cleaned rows.
C2_EveryRowInOneBucket ==
    HasResult =>
        /\ \A i \in 1..Len(results.data.rows) :
              results.data.rows[i].position_group \in Range(Labels)
        /\ SumSeq([i \in 1..Len(Labels) |-> results.group_stats[Labels[i]].count])
              = Len(results.data.rows)

\* C3 (as claimed): no exception escapes main().
C3_NoExceptionEscapes == escaped = "" /\ pc # "crashed"

\* C4 (as claimed): any returned result is computed from at least 10 cleaned
\* rows (rows with orders > 0 and 0 < avg_pos <= 200).
C4_ResultHasTenCleanRows == HasResult => Len(results.data.rows) >= 10

\* number of loaded rows whose order count is a number > 0
PositiveOrderRows ==
    Cardinality({i \in 1..Len(df.rows) :
        df.rows[i].orders.t \in {"num", "numtext"} /\ df.rows[i].orders.v > 0})

EarlyAbortCase ==
    \/ IsEmpty(df)
    \/ ~(RequiredColumns \subseteq df.cols)
    \/ PositiveOrderRows < 10

\* C5: in a run whose load is empty, or whose table lacks a required column,
\* or has fewer than 10 rows with orders > 0, the analysis returns no result
\* and neither create_visualizations nor the spreadsheet writer ever runs: no
\* chart or export file exists.
C5_EarlyAbortNoArtifacts ==
    (Loaded /\ EarlyAbortCase) =>
        /\ results \in {NotRun, None}
        /\ ~vizCalled
        /\ ~excelCalled
        /\ files = {}
        /\ pc \notin {"export", "summary"}

\* C5 witness: 5 rows were loaded, 3 of them with orders = 0, the analysis
\* reported insufficient data and main() returned.
C5_Witness ==
    /\ pc = "done"
    /\ Len(df.rows) = 5
    /\ Cardinality({i \in 1..5 : df.rows[i].orders = Num(0)}) = 3
    /\ "insufficient_data" \in reported
    /\ results = None

Coefficient(c) == c.t = "num" /\ 0 - 100 <= c.v /\ c.v <= 100
PValue(c) == c.t = "num" /\ 0 <= c.v /\ c.v <= 100

\* C6 (as claimed): when the correlation computation failed, a returned result
\* holds coefficients 0 and p-values 1; and in every returned result both
\* coefficients lie in [-1, 1] and both p-values in [0, 1].
C6_CorrelationInRange ==
    HasResult =>
        /\ "correlation_error" \in reported =>
              /\ results.pearson_corr = Num(0) /\ results.spearman_corr = Num(0)
              /\ results.pearson_p = Num(100) /\ results.spearman_p = Num(100)
        /\ Coefficient(results.pearson_corr) /\ Coefficient(results.spearman_corr)
        /\ PValue(results.pearson_p) /\ PValue(results.spearman_p)

\* C7 (as claimed): once get_advertising_data has returned, a connection that
\* was opened is closed.
C7_ConnectionClosed == (Loaded /\ conn # "none") => conn = "closed"

\* C8: the printed strength and direction are the claimed function of the
\* Pearson coefficient r: |r| >= 0.70 strong, 0.30 <= |r| < 0.70 moderate,
\* 0.10 <= |r| < 0.30 weak, |r| < 0.10 negligible / none; negative exactly
\* when r < 0.
C8_Classification ==
    (interpretation # None /\ interpretation.corr.t = "num") =>
        LET r == interpretation.corr.v
            a == IF r < 0 THEN 0 - r ELSE r
        IN  /\ (a >= 70) <=> (interpretation.strength = "strong")
            /\ (30 <= a /\ a < 70) <=> (interpretation.strength = "moderate")
            /\ (10 <= a /\ a < 30) <=> (interpretation.strength = "weak")
            /\ (a < 10) <=> (interpretation.strength = "negligible")
            /\ (r < 0) <=> (interpretation.direction = "negative")
            /\ (r >= 0) <=> (interpretation.direction = "positive")

\* C8 witness: r = -1 was computed and printed as a strong negative correlation.
C8_Witness ==
    /\ interpretation # None
    /\ interpretation.corr = Num(0 - 100)
    /\ interpretation.strength = "strong"
    /\ interpretation.direction = "negative"

TopKeys == {<<r.advert_id, r.norm_query>> : r \in Range(results.data.rows)}
OrdersSum(key) ==
    SumSeq([i \in 1..Len(results.data.rows) |->
        IF <<results.data.rows[i].advert_id, results.data.rows[i].norm_query>> = key
        THEN results.data.rows[i].orders.v ELSE 0])
TopKey(i) == <<results.top_campaigns[i].advert_id, results.top_campaigns[i].norm_query>>
Listed == {TopKey(i) : i \in 1..Len(results.top_campaigns)}
\* position in the cleaned table of the first row of a group
FirstRow(key) ==
    CHOOSE i \in 1..Len(results.data.rows) :
        /\ <<results.data.rows[i].advert_id, results.data.rows[i].norm_query>> = key
        /\ \A j \in 1..(i - 1) :
              <<results.data.rows[j].advert_id, results.data.rows[j].norm_query>> # key

\* the part of C9 that does not concern ties
TopCampaignsRanked ==
    LET top == results.top_campaigns
    IN  /\ Len(top) <= 10
        /\ Len(top) = 10 \/ Listed = TopKeys
        /\ \A i \in 1..Len(top) : TopKey(i) \in TopKeys /\ top[i].orders = OrdersSum(TopKey(i))
        /\ \A i, j \in 1..Len(top) : i < j => TopKey(i) # TopKey(j)
        /\ \A i, j \in 1..Len(top) : i < j => top[i].orders >= top[j].orders
        /\ \A k \in TopKeys \ Listed : \A i \in 1..Len(top) : top[i].orders >= OrdersSum(k)

\* C9 (as claimed): the top-campaigns table groups the cleaned rows by
\* (advert_id, norm_query), has at most 10 entries, is sorted by summed orders
\* descending, leaves out no group with a larger sum than a listed one, and
\* puts groups of equal sum in the order of their first rows in the input.
C9_TiesByInputOrder ==
    HasResult =>
        /\ TopCampaignsRanked
        /\ \A i, j \in 1..Len(results.top_campaigns) :
              (i < j /\ results.top_campaigns[i].orders = results.top_campaigns[j].orders)
                 => FirstRow(TopKey(i)) < FirstRow(TopKey(j))

\* C9 (amended): as claimed, except that groups of equal sum are in ascending
\* order of their key (advert_id, then norm_query), and of the groups whose
\* sum equals the smallest listed sum the ones with the smallest keys are
\* listed.
C9_TiesByGroupKey ==
    HasResult =>
        /\ TopCampaignsRanked
        /\ \A i, j \in 1..Len(results.top_campaigns) :
              (i < j /\ results.top_campaigns[i].orders = results.top_campaigns[j].orders)
                 => KeyLess(TopKey(i), TopKey(j))
        /\ \A k \in TopKeys \ Listed : \A i \in 1..Len(results.top_campaigns) :
              results.top_campaigns[i].orders = OrdersSum(k) => KeyLess(TopKey(i), k)

\* C9 witness: more than 10 groups, so one is left out, its sum equal to a
\* listed one, and two listed groups of equal sum whose first rows are in the
\* opposite order in the input.
C9_Witness ==
    /\ HasResult
    /\ Cardinality(TopKeys) > 10
    /\ \E k \in TopKeys \ Listed : \E i \in 1..Len(results.top_campaigns) :
          results.top_campaigns[i].orders = OrdersSum(k)
    /\ \E i, j \in 1..Len(results.top_campaigns) :
          /\ i < j
          /\ results.top_campaigns[i].orders = results.top_campaigns[j].orders
          /\ FirstRow(TopKey(i)) > FirstRow(TopKey(j))

C11_ConclusionBranches ==
    finalBranch # "unset" =>
        /\ finalBranch \in {"improve_rank", "other_factors", "unexpected_positive"}
        /\ finalBranch = "improve_rank" <=> Lt(results.pearson_corr, 0 - 30)
        /\ finalBranch = "other_factors" <=>
              (Gt(results.pearson_corr, 0 - 30) /\ Lt(results.pearson_corr, 30))
        /\ finalBranch = "unexpected_positive" => Gt(results.pearson_corr, 0)
        /\ recBranch = finalBranch

\* the analysis got as far as the minimum-row check of line 90
ReachedRowCheck == "insufficient_data" \in reported \/ vizCalled

\* C12 (as claimed): the rows counted against the minimum of 10 hold no row
\* whose avg_pos or orders is missing or non-numeric: each counted row has a
\* numeric position and a numeric order count.
C12_CountedRowsNumeric ==
    ReachedRowCheck =>
        \A i \in 1..Len(countedRows) :
            countedRows[i].avg_pos.t = "num" /\ countedRows[i].orders.t = "num"

\* C13: the spreadsheet export is attempted only after create_visualizations
\* has completed and saved the chart; a failure of the writer is caught and
\* reported inside save_results_to_excel, leaves the chart file in place, and
\* main() goes on to print the final summary and returns with no exception.
C13_ExportAfterCharts ==
    /\ (pc = "export" \/ excelCalled) =>
          /\ vizCalled
          /\ ChartFile \in files
          /\ HasResult
          /\ escaped = ""
    /\ excelCalled =>
          /\ pc \in {"summary", "done"}
          /\ "excel_saved" \in reported \/ "excel_error" \in reported
          /\ pc = "summary" => ENABLED Summary
          /\ pc = "done" => "summary" \in reported /\ finalBranch # "unset"
    /\ "excel_error" \in reported => excelCalled

\* C13 witness: the charts were saved, the writer failed and said so, and
\* main() printed the summary and returned.
C13_Witness ==
    /\ pc = "done"
    /\ "excel_error" \in reported
    /\ "summary" \in reported
    /\ {ChartFile, TrendFile} \subseteq files
    /\ ExcelFile \notin files
    /\ escaped = ""
====
